---- MODULE Spec2Model ----
(***************************************************************************)
(* Verification model of icpac-igad/arco-ibf.                               *)
(*                                                                         *)
(* The repository is a set of independent entry points, so the module      *)
(* holds one state machine per entry point, each with its own              *)
(* specification:                                                          *)
(*   SpecLauncher  src/start_services.py  (Nginx + TiTiler launcher)       *)
(*   SpecIndex     src/grib-index/utils.py (map_from_index)                *)
(*   SpecStac      src/stac_explorer.py    (STACExplorer operations)       *)
(*   SpecCalls     src/stac_explorer.py and the /status handler of         *)
(*                 src/main.py: every operation with its external calls    *)
(*   SpecPool      src/fcst/download.py    (per-date downloads on a Pool)  *)
(*   SpecConfig    src/config.py           (the GCS configuration file)    *)
(*   SpecApp       src/app.py              (COG viewer and its GCS proxy)  *)
(*   SpecCli       src/cli.py              (export_metadata)               *)
(***************************************************************************)
EXTENDS Integers, Sequences, FiniteSets, TLC

VARIABLES
    \* ---- src/start_services.py ----
    pc,          \* position of the launcher's main thread
    processes,   \* the global list `processes` (names, in append order)
    child,       \* child process state, per service name
    stubborn,    \* whether the child ignores SIGTERM (cleanup must kill it)
    listening,   \* whether the child's port accepts connections
    polls,       \* failed polls of the wait_for_service call in progress
    mon_i,       \* index of the monitoring loop in `processes`
    exit_code,   \* exit status of the launcher, "none" while it runs
    signalled,   \* history: a signal arrived after a child had been spawned
    observed,    \* history: ports wait_for_service saw accepting a connection
    failed,      \* history: the step that made main give up, and its service
    \* ---- src/grib-index/utils.py ----
    idxdf,       \* the parsed idx table, one record per grib message
    mapping,     \* the mapping table
    mapped,      \* what the call made on them gave: a table or a ValueError
    \* ---- src/stac_explorer.py ----
    last,        \* the last STACExplorer operation: its requests and result
    \* ---- src/main.py ----
    health,      \* the last /status request: its attempts and response
    \* ---- src/fcst/download.py ----
    time_beg,    \* --time-beg, as a day number
    time_end,    \* --time-end, as a day number
    run,         \* the main process: "start", "mapping", "returned", "raised"
    taskqueue,   \* the chunks of dates no worker has taken yet
    worker,      \* per pool worker: its chunk, its position in it, its state
    handed,      \* per date: how many times it was handed to get_date
    completed,   \* the dates whose get_date returned
    first_raised,\* history: the date whose get_date raised first, or NoDate
    number_left, \* MapResult._number_left: chunks not reported yet
    success,     \* MapResult._success
    value,       \* MapResult._value: the date of the stored exception, or NoDate
    \* ---- src/config.py ----
    environ,     \* os.environ: the three variables load_gcs_config reads
    config_file, \* .config/gcs_config.json
    config_calls,\* history: the calls made, their arguments and results
    \* ---- src/app.py ----
    app_environ,     \* os.environ of the Flask process
    storage_client,  \* the global storage_client: "None" or a client's key
    GCS_CREDENTIALS, \* the global GCS_CREDENTIALS
    GCS_BUCKET_NAME, \* the global GCS_BUCKET_NAME
    cred,            \* the last answer of a credential endpoint
    proxy,           \* the /proxy/gcs request in progress and its response
    \* ---- src/cli.py ----
    catalog,     \* the items get_items returns for the collection
    exported     \* the last export_metadata run: its file and its message

launcherVars ==
    <<pc, processes, child, stubborn, listening, polls, mon_i, exit_code,
      signalled, observed, failed>>

indexVars == <<idxdf, mapping, mapped>>

callVars == <<last, health>>

poolVars ==
    <<time_beg, time_end, run, taskqueue, worker, handed, completed,
      first_raised, number_left, success, value>>

configVars == <<environ, config_file, config_calls>>

appVars ==
    <<app_environ, storage_client, GCS_CREDENTIALS, GCS_BUCKET_NAME, cred,
      proxy>>

cliVars == <<catalog, exported>>

vars ==
    <<launcherVars, indexVars, callVars, poolVars, configVars, appVars,
      cliVars>>

\* What the actions of one program leave alone: the other programs.
notLauncher ==
    <<indexVars, callVars, poolVars, configVars, appVars, cliVars>>

notIndex ==
    <<launcherVars, callVars, poolVars, configVars, appVars, cliVars>>

notCalls ==
    <<launcherVars, indexVars, poolVars, configVars, appVars, cliVars>>

notPool ==
    <<launcherVars, indexVars, callVars, configVars, appVars, cliVars>>

notConfig ==
    <<launcherVars, indexVars, callVars, poolVars, appVars, cliVars>>

notCli ==
    <<launcherVars, indexVars, callVars, poolVars, configVars, appVars>>

notApp ==
    <<launcherVars, indexVars, callVars, poolVars, configVars, cliVars>>

(***************************************************************************)
(*                     src/start_services.py                               *)
(***************************************************************************)

Services == {"TiTiler", "Nginx"}

\* main gives up at: the Nginx config check (line 244), a spawn (lines 250,
\* 262), a readiness wait (lines 256, 268), a dead process (line 282).
Failure(step, s) == [step |-> step, service |-> s]

NoFailure == Failure("none", "none")

\* wait_for_service gives up after `timeout` seconds of one poll per second;
\* the model gives up after MaxPolls failed polls.
MaxPolls == 2

Registered == {processes[i] : i \in 1..Len(processes)}

Spawned == {s \in Services : child[s] # "none"}

Alive == {s \in Services : child[s] = "running"}

\* cleanup(), lines 29-37: every registered process whose poll() is None is
\* terminated, and killed when it has not exited 5 s later.
StopAll(ch) ==
    [s \in Services |->
        IF s \in Registered /\ ch[s] = "running"
        THEN (IF stubborn[s] THEN "killed" ELSE "terminated")
        ELSE ch[s]]

\* Mutant of Cleanup: sys.exit(0) without the loop that stops the children.
CleanupExitsOnly ==
    /\ UNCHANGED <<child, listening>>
    /\ pc' = "exited"
    /\ exit_code' = "0"

\* cleanup() called from main: stop the registered children, sys.exit(0).
\* The SystemExit is raised outside any try block of main that catches it.
Cleanup ==
    /\ child' = StopAll(child)
    /\ listening' = [s \in Services |-> listening[s] /\ StopAll(child)[s] = "running"]
    /\ pc' = "exited"
    /\ exit_code' = "0"

LauncherInit ==
    /\ pc = "check_config"
    /\ processes = <<>>
    /\ child = [s \in Services |-> "none"]
    /\ stubborn = [s \in Services |-> FALSE]
    /\ listening = [s \in Services |-> FALSE]
    /\ polls = 0
    /\ mon_i = 1
    /\ exit_code = "none"
    /\ signalled = FALSE
    /\ observed = {}
    /\ failed = NoFailure

\* main, lines 243-246: check_nginx_config() fails -> sys.exit(1).
CheckConfig ==
    /\ UNCHANGED notLauncher
    /\ pc = "check_config"
    /\ \E ok \in BOOLEAN :
        IF ok
        THEN /\ pc' = "spawn_titiler"
             /\ UNCHANGED <<exit_code, failed>>
        ELSE /\ pc' = "exited"
             /\ exit_code' = "1"
             /\ failed' = Failure("config", "Nginx")
    /\ UNCHANGED <<processes, child, stubborn, listening, polls, mon_i,
                   signalled, observed>>

\* start_titiler, lines 135-155, and main line 249.  Popen succeeds and the
\* child runs, or Popen raises, start_titiler returns None and the tuple
\* unpacking at line 249 raises TypeError: the launcher dies with status 1.
SpawnTiTiler ==
    /\ UNCHANGED notLauncher
    /\ pc = "spawn_titiler"
    /\ \E ok \in BOOLEAN, stub \in BOOLEAN :
        IF ok
        THEN /\ child' = [child EXCEPT !["TiTiler"] = "running"]
             /\ stubborn' = [stubborn EXCEPT !["TiTiler"] = stub]
             /\ pc' = "register_titiler"
             /\ UNCHANGED <<exit_code, failed>>
        ELSE /\ pc' = "exited"
             /\ exit_code' = "1"
             /\ failed' = Failure("spawn", "TiTiler")
             /\ UNCHANGED <<child, stubborn>>
    /\ UNCHANGED <<processes, listening, polls, mon_i, signalled, observed>>

\* main, line 253: processes.append(('TiTiler', titiler_proc)).
RegisterTiTiler ==
    /\ UNCHANGED notLauncher
    /\ pc = "register_titiler"
    /\ processes' = Append(processes, "TiTiler")
    /\ pc' = "wait_titiler"
    /\ polls' = 0
    /\ UNCHANGED <<child, stubborn, listening, mon_i, exit_code, signalled,
                   observed, failed>>

\* Mutant of PollService: cleanup() returns instead of exiting, so main falls
\* through to the next startup step after a timeout.
PollServiceFallsThrough(s, port, next) ==
    IF listening[s]
    THEN /\ observed' = observed \cup {port}
         /\ pc' = next
         /\ polls' = 0
         /\ UNCHANGED <<child, listening, exit_code, failed>>
    ELSE IF polls + 1 < MaxPolls
    THEN /\ polls' = polls + 1
         /\ UNCHANGED <<pc, child, listening, exit_code, observed, failed>>
    ELSE /\ child' = StopAll(child)
         /\ listening' = [x \in Services |-> FALSE]
         /\ pc' = next
         /\ polls' = 0
         /\ failed' = Failure("ready", s)
         /\ UNCHANGED <<exit_code, observed>>

\* wait_for_service, lines 208-228, one iteration of its loop for service s;
\* on True main goes on at `next`, on False main calls cleanup().
PollService(s, port, next) ==
    IF listening[s]
    THEN /\ observed' = observed \cup {port}
         /\ pc' = next
         /\ polls' = 0
         /\ UNCHANGED <<child, listening, exit_code, failed>>
    ELSE IF polls + 1 < MaxPolls
    THEN /\ polls' = polls + 1
         /\ UNCHANGED <<pc, child, listening, exit_code, observed, failed>>
    ELSE /\ Cleanup
         /\ polls' = polls + 1
         /\ failed' = Failure("ready", s)
         /\ UNCHANGED observed

\* main, lines 256-258.
PollTiTiler ==
    /\ UNCHANGED notLauncher
    /\ pc = "wait_titiler"
    /\ PollService("TiTiler", 8000, "spawn_nginx")
    /\ UNCHANGED <<processes, stubborn, mon_i, signalled>>

\* start_nginx, lines 173-205, and main lines 261-264: nginx.conf missing or
\* Popen raising gives None and main calls cleanup().
SpawnNginx ==
    /\ UNCHANGED notLauncher
    /\ pc = "spawn_nginx"
    /\ \E ok \in BOOLEAN, stub \in BOOLEAN :
        IF ok
        THEN /\ child' = [child EXCEPT !["Nginx"] = "running"]
             /\ stubborn' = [stubborn EXCEPT !["Nginx"] = stub]
             /\ pc' = "register_nginx"
             /\ UNCHANGED <<listening, exit_code, failed>>
        ELSE /\ Cleanup
             /\ failed' = Failure("spawn", "Nginx")
             /\ UNCHANGED stubborn
    /\ UNCHANGED <<processes, polls, mon_i, signalled, observed>>

\* main, line 265: processes.append(('Nginx', nginx_proc)).
RegisterNginx ==
    /\ UNCHANGED notLauncher
    /\ pc = "register_nginx"
    /\ processes' = Append(processes, "Nginx")
    /\ pc' = "wait_nginx"
    /\ polls' = 0
    /\ UNCHANGED <<child, stubborn, listening, mon_i, exit_code, signalled,
                   observed, failed>>

\* main, lines 268-270.
PollNginx ==
    /\ UNCHANGED notLauncher
    /\ pc = "wait_nginx"
    /\ PollService("Nginx", 5000, "monitor")
    /\ UNCHANGED <<processes, stubborn, mon_i, signalled>>

\* Mutant of MonitorPoll: a dead process makes main exit at once, without
\* cleanup() stopping the other process.
MonitorPollExitsOnly ==
    /\ UNCHANGED notLauncher
    /\ pc = "monitor"
    /\ IF child[processes[mon_i]] # "running"
       THEN /\ pc' = "exited"
            /\ exit_code' = "1"
            /\ failed' = Failure("died", processes[mon_i])
            /\ UNCHANGED <<mon_i, child, listening>>
       ELSE /\ mon_i' = IF mon_i = Len(processes) THEN 1 ELSE mon_i + 1
            /\ UNCHANGED <<pc, child, listening, exit_code, failed>>
    /\ UNCHANGED <<processes, stubborn, polls, signalled, observed>>

\* main, lines 280-285: one proc.poll() of the monitoring loop.  A process
\* that has exited makes main call cleanup(); after the last process the
\* loop sleeps 5 s and starts over.
MonitorPoll ==
    /\ UNCHANGED notLauncher
    /\ pc = "monitor"
    /\ IF child[processes[mon_i]] # "running"
       THEN /\ Cleanup
            /\ failed' = Failure("died", processes[mon_i])
            /\ UNCHANGED mon_i
       ELSE /\ mon_i' = IF mon_i = Len(processes) THEN 1 ELSE mon_i + 1
            /\ UNCHANGED <<pc, child, listening, exit_code, failed>>
    /\ UNCHANGED <<processes, stubborn, polls, signalled, observed>>

\* SIGTERM or SIGINT, handled by cleanup (lines 237-238) in the main thread
\* between two bytecodes.  cleanup stops the registered children and raises
\* SystemExit at the interrupted point: inside the try block of
\* wait_for_service (lines 215-224) the bare `except: pass` swallows it and
\* the wait goes on; anywhere else it ends the launcher with status 0.
Signal ==
    /\ UNCHANGED notLauncher
    /\ pc # "exited"
    /\ signalled' = (signalled \/ Spawned # {})
    /\ \E inTry \in BOOLEAN :
        IF inTry /\ pc \in {"wait_titiler", "wait_nginx"}
        THEN /\ child' = StopAll(child)
             /\ listening' = [s \in Services |->
                                listening[s] /\ StopAll(child)[s] = "running"]
             /\ UNCHANGED <<pc, exit_code>>
        ELSE Cleanup
    /\ UNCHANGED <<processes, stubborn, polls, mon_i, observed, failed>>

\* Environment: a running child exits on its own.
ChildDies(s) ==
    /\ UNCHANGED notLauncher
    /\ pc # "exited"
    /\ child[s] = "running"
    /\ child' = [child EXCEPT ![s] = "exited"]
    /\ listening' = [listening EXCEPT ![s] = FALSE]
    /\ UNCHANGED <<pc, processes, stubborn, polls, mon_i, exit_code,
                   signalled, observed, failed>>

\* Environment: a running child binds its port (8000 or 5000).
ChildListens(s) ==
    /\ UNCHANGED notLauncher
    /\ pc # "exited"
    /\ child[s] = "running"
    /\ ~listening[s]
    /\ listening' = [listening EXCEPT ![s] = TRUE]
    /\ UNCHANGED <<pc, processes, child, stubborn, polls, mon_i, exit_code,
                   signalled, observed, failed>>

LauncherNext ==
    \/ CheckConfig
    \/ SpawnTiTiler
    \/ RegisterTiTiler
    \/ PollTiTiler
    \/ SpawnNginx
    \/ RegisterNginx
    \/ PollNginx
    \/ MonitorPoll
    \/ Signal
    \/ \E s \in Services : ChildDies(s)
    \/ \E s \in Services : ChildListens(s)

(***************************************************************************)
(*                     src/grib-index/utils.py                             *)
(***************************************************************************)

\* Bounds of the tables the model draws.
MaxIdxRows == 2

MaxMapRows == 2

Attrs == {"a1", "a2"}

\* pandas' missing values: NaN in an object column, NaT in a time column.
NaN == "NaN"

NaT == -1

VarNames == {"t2m", NaN}

Times == {6}

Steps == {0, 3}

\* A row of the parsed idx file: its join key and the offset of the message.
\* Messages of one file have increasing offsets.
IdxRow(a, i) == [attrs |-> a, offset |-> i]

IdxTables ==
    UNION {{[i \in 1..n |-> IdxRow(f[i], i)] : f \in [1..n -> Attrs]}
             : n \in 0..MaxIdxRows}

\* A row of the mapping table: its join key and the columns the merge brings.
MapRows ==
    [attrs : Attrs, varname : VarNames, time : Times, step : Steps,
     valid_time : {t + st : t \in Times, st \in Steps},
     inline_value : {"inline"}]

MapTables == UNION {[1..n -> MapRows] : n \in 0..MaxMapRows}

NoCall ==
    [call |-> "none", arg |-> <<>>, status |-> "none", raw_merged |-> FALSE,
     rows |-> <<>>]

\* Index.is_unique, lines 74 and 77.
IsUnique(df) ==
    \A i, j \in 1..Len(df) : df[i].attrs = df[j].attrs => i = j

\* The rows a left merge makes of one idx row: one per mapping row with its
\* key, in the mapping's order, or a single row of missing values.
RECURSIVE Matches(_, _)
Matches(row, m) ==
    IF m = <<>> THEN <<>>
    ELSE (IF Head(m).attrs = row.attrs
          THEN <<[varname |-> Head(m).varname, time |-> Head(m).time,
                  step |-> Head(m).step, valid_time |-> Head(m).valid_time,
                  offset |-> row.offset, inline_value |-> Head(m).inline_value]>>
          ELSE <<>>) \o Matches(row, Tail(m))

MergeRow(row, m) ==
    IF Matches(row, m) = <<>>
    THEN <<[varname |-> NaN, time |-> NaT, step |-> NaT, valid_time |-> NaT,
            offset |-> row.offset, inline_value |-> NaN]>>
    ELSE Matches(row, m)

\* idxdf.merge(mapping, on="attrs", how="left"), line 82.
RECURSIVE LeftMerge(_, _)
LeftMerge(idx, m) ==
    IF idx = <<>> THEN <<>>
    ELSE MergeRow(Head(idx), m) \o LeftMerge(Tail(idx), m)

\* time + step on a column holding NaT.
AddTime(t, st) == IF t = NaT \/ st = NaT THEN NaT ELSE t + st

\* Mutant of Derive: valid_time is left as the mapping had it.
DeriveKeepsValidTime(rows) ==
    [i \in 1..Len(rows) |-> [rows[i] EXCEPT !.inline_value = "None"]]

\* Lines 111-115: inline_value <- None, valid_time <- time + step.
Derive(rows) ==
    [i \in 1..Len(rows) |->
        [rows[i] EXCEPT !.inline_value = "None",
                        !.valid_time = AddTime(rows[i].time, rows[i].step)]]

\* Mutant of DropNaVarname: the rows with a missing varname are kept.
DropNothing(rows) == rows

\* Line 117: the rows whose varname is missing are dropped.
RECURSIVE DropNaVarname(_)
DropNaVarname(rows) ==
    IF rows = <<>> THEN <<>>
    ELSE (IF Head(rows).varname = NaN THEN <<>> ELSE <<Head(rows)>>)
            \o DropNaVarname(Tail(rows))

\* Mutant of MapFromIndex: the uniqueness of the mapping is not checked.
MapFromIndexNoMappingCheck(m, idx, raw_merged) ==
    IF ~IsUnique(idx)
    THEN [status |-> "ValueError", raw_merged |-> raw_merged, rows |-> <<>>]
    ELSE IF raw_merged
    THEN [status |-> "ok", raw_merged |-> TRUE, rows |-> LeftMerge(idx, m)]
    ELSE [status |-> "ok", raw_merged |-> FALSE,
          rows |-> DropNaVarname(Derive(LeftMerge(idx, m)))]

\* map_from_index, lines 55-118.
MapFromIndex(m, idx, raw_merged) ==
    IF ~IsUnique(idx)
    THEN [status |-> "ValueError", raw_merged |-> raw_merged, rows |-> <<>>]
    ELSE IF ~IsUnique(m)
    THEN [status |-> "ValueError", raw_merged |-> raw_merged, rows |-> <<>>]
    ELSE IF raw_merged
    THEN [status |-> "ok", raw_merged |-> TRUE, rows |-> LeftMerge(idx, m)]
    ELSE [status |-> "ok", raw_merged |-> FALSE,
          rows |-> DropNaVarname(Derive(LeftMerge(idx, m)))]

\* idxdf.loc[~idxdf["attrs"].duplicated(keep="first"), :], line 131.
RECURSIVE DedupKeepFirst(_, _)
DedupKeepFirst(df, seen) ==
    IF df = <<>> THEN <<>>
    ELSE IF Head(df).attrs \in seen THEN DedupKeepFirst(Tail(df), seen)
    ELSE <<Head(df)>> \o DedupKeepFirst(Tail(df), seen \cup {Head(df).attrs})

IndexIdle ==
    /\ idxdf = <<>>
    /\ mapping = <<>>
    /\ mapped = NoCall

IndexInit ==
    /\ idxdf \in IdxTables
    /\ mapping \in MapTables
    /\ mapped = NoCall

\* A call map_from_index(mapping, idxdf, raw_merged).
MapFromIndexCall ==
    /\ UNCHANGED notIndex
    /\ mapped.call = "none"
    /\ \E raw_merged \in BOOLEAN :
        mapped' = [call |-> "map_from_index", arg |-> idxdf]
                    @@ MapFromIndex(mapping, idxdf, raw_merged)
    /\ UNCHANGED <<idxdf, mapping>>

\* real_time_index_maker, lines 123-134, for one idx file: the idx rows are
\* deduplicated on attrs and mapped with raw_merged left at its default.
RealTimeIndexMakerCall ==
    /\ UNCHANGED notIndex
    /\ mapped.call = "none"
    /\ mapped' = [call |-> "real_time_index_maker",
                  arg |-> DedupKeepFirst(idxdf, {})]
                    @@ MapFromIndex(mapping, DedupKeepFirst(idxdf, {}), FALSE)
    /\ UNCHANGED <<idxdf, mapping>>

IndexNext ==
    \/ MapFromIndexCall
    \/ RealTimeIndexMakerCall

(***************************************************************************)
(*                       src/stac_explorer.py                              *)
(***************************************************************************)

\* Bounds: the pages of a paginated listing, the entries of one page.
MaxPages == 2

MaxEntries == 2

\* What one HTTP request of the session can give: an exception of requests,
\* or a response with a status and a body.  A body is a JSON object with
\* the content the operation expects ("object"), a JSON object without it
\* ("nokey"), or not JSON at all ("notjson").
RequestErrors == {"Timeout", "ConnectionError", "RequestException"}

HttpOutcomes ==
    [exc : RequestErrors, status : {0}, body : {"none"}]
        \cup [exc : {"none"}, status : {200}, body : {"object", "nokey", "notjson"}]
        \cup [exc : {"none"}, status : {404, 500}, body : {"none"}]

\* The classes an exception is an instance of.  json.JSONDecodeError is a
\* ValueError; the error of pystac's from_dict is some Exception.
Supers(e) ==
    CASE e = "Timeout" -> {"Timeout", "RequestException", "Exception"}
      [] e = "ConnectionError" -> {"ConnectionError", "RequestException", "Exception"}
      [] e = "RequestException" -> {"RequestException", "Exception"}
      [] e = "JSONDecodeError" -> {"JSONDecodeError", "ValueError", "Exception"}
      [] OTHER -> {e, "Exception"}

\* Mutant of Handlers: check_api_availability without its last except
\* clause, get_items and search_items without `except json.JSONDecodeError`.
HandlersNarrowed(op) ==
    CASE op = "check_api_availability" -> {"Timeout", "ConnectionError"}
      [] op = "get_api_info" -> {"RequestException", "JSONDecodeError"}
      [] op = "check_collection_exists" -> {"RequestException"}
      [] op = "get_collections" -> {"RequestException", "JSONDecodeError"}
      [] op = "get_collection" -> {"RequestException", "JSONDecodeError", "Exception"}
      [] op = "get_items" -> {"RequestException"}
      [] op = "get_item" -> {"RequestException", "JSONDecodeError", "Exception"}
      [] op = "search_items" -> {"RequestException"}

\* The except clauses of each operation's outer try statement.
Handlers(op) ==
    CASE op = "check_api_availability" ->
            {"Timeout", "ConnectionError", "RequestException"}
      [] op = "get_api_info" -> {"RequestException", "JSONDecodeError"}
      [] op = "check_collection_exists" -> {"RequestException"}
      [] op = "get_collections" -> {"RequestException", "JSONDecodeError"}
      [] op = "get_collection" -> {"RequestException", "JSONDecodeError", "Exception"}
      [] op = "get_items" -> {"RequestException", "JSONDecodeError"}
      [] op = "get_item" -> {"RequestException", "JSONDecodeError", "Exception"}
      [] op = "search_items" -> {"RequestException", "JSONDecodeError"}

\* What an exception e raised in the try block of op leaves: the value the
\* matching except clause returns, or the exception itself.
Except(op, e, sentinel) ==
    IF Supers(e) \cap Handlers(op) # {} THEN sentinel ELSE "raised"

Call(method, url, out) == [method |-> method, url |-> url, out |-> out]

Result(op, calls, ret, n) == [op |-> op, calls |-> calls, ret |-> ret, n |-> n]

\* The entries of a page that from_dict parses (True) or rejects (False):
\* the rejected ones are skipped by the inner `except Exception: continue`.
RECURSIVE CountParsed(_)
CountParsed(entries) ==
    IF entries = <<>> THEN 0
    ELSE (IF Head(entries) THEN 1 ELSE 0) + CountParsed(Tail(entries))

\* check_api_availability, lines 36-61.
CheckApiAvailability(o) ==
    Result("check_api_availability", <<Call("GET", "/", o)>>,
           IF o.exc # "none" THEN Except("check_api_availability", o.exc, "False")
           ELSE IF o.status = 200 THEN "True"
           ELSE "False", 0)

\* get_api_info, lines 63-86.
GetApiInfo(o) ==
    Result("get_api_info", <<Call("GET", "/", o)>>,
           IF o.exc # "none" THEN Except("get_api_info", o.exc, "None")
           ELSE IF o.status = 200
           THEN (IF o.body = "notjson"
                 THEN Except("get_api_info", "JSONDecodeError", "None")
                 ELSE "object")
           ELSE "None", 0)

\* Mutant of CheckCollectionExists: the request is sent again after a
\* request exception.
CheckCollectionExistsRetrying(o) ==
    Result("check_collection_exists",
           IF o.exc # "none"
           THEN <<Call("GET", "/collections/id", o), Call("GET", "/collections/id", o)>>
           ELSE <<Call("GET", "/collections/id", o)>>,
           IF o.exc # "none" THEN Except("check_collection_exists", o.exc, "False")
           ELSE IF o.status = 200 THEN "True"
           ELSE "False", 0)

\* check_collection_exists, lines 88-113.
CheckCollectionExists(o) ==
    Result("check_collection_exists", <<Call("GET", "/collections/id", o)>>,
           IF o.exc # "none" THEN Except("check_collection_exists", o.exc, "False")
           ELSE IF o.status = 200 THEN "True"
           ELSE "False", 0)

\* get_collection (lines 168-201) and get_item (lines 255-289): one GET,
\* response.json(), then from_dict, which rejects an object without the
\* fields of a collection or an item.
GetOne(op, url, o) ==
    Result(op, <<Call("GET", url, o)>>,
           IF o.exc # "none" THEN Except(op, o.exc, "None")
           ELSE IF o.status = 200
           THEN (IF o.body = "notjson" THEN Except(op, "JSONDecodeError", "None")
                 ELSE IF o.body = "nokey" THEN Except(op, "STACError", "None")
                 ELSE "object")
           ELSE "None", 0)

GetCollection(o) == GetOne("get_collection", "/collections/id", o)

GetItem(o) == GetOne("get_item", "/collections/id/items/id", o)

\* The part get_items (lines 227-253) and search_items (lines 343-369)
\* share: the status check, response.json(), the 'features' key, the loop
\* over the features.  The list is returned in every case.
Features(op, calls, o, entries) ==
    IF o.status # 200 THEN Result(op, calls, "list", 0)
    ELSE IF o.body = "notjson"
    THEN Result(op, calls, Except(op, "JSONDecodeError", "list"), 0)
    ELSE IF o.body = "nokey" THEN Result(op, calls, "list", 0)
    ELSE Result(op, calls, "list", CountParsed(entries))

\* get_items, lines 203-253.
GetItems(o, entries) ==
    IF o.exc # "none"
    THEN Result("get_items", <<Call("GET", "/collections/id/items", o)>>,
                Except("get_items", o.exc, "list"), 0)
    ELSE Features("get_items", <<Call("GET", "/collections/id/items", o)>>,
                  o, entries)

\* search_items, lines 291-369: the POST, and when it raises a request
\* exception the GET of lines 330-341, whose own exception reaches the outer
\* except clauses.
SearchItems(post, get, entries) ==
    IF post.exc = "none"
    THEN Features("search_items", <<Call("POST", "/search", post)>>, post, entries)
    ELSE IF "RequestException" \notin Supers(post.exc)
    THEN Result("search_items", <<Call("POST", "/search", post)>>,
                Except("search_items", post.exc, "list"), 0)
    ELSE IF get.exc # "none"
    THEN Result("search_items",
                <<Call("POST", "/search", post), Call("GET", "/search", get)>>,
                Except("search_items", get.exc, "list"), 0)
    ELSE Features("search_items",
                  <<Call("POST", "/search", post), Call("GET", "/search", get)>>,
                  get, entries)

\* A page of /collections: the outcome of its request, its entries, and
\* whether its links hold a 'next' link.
EntryLists == UNION {[1..n -> BOOLEAN] : n \in 0..MaxEntries}

Pages ==
    [out : {o \in HttpOutcomes : o.body # "object"}, entries : {<<>>},
     next : {FALSE}]
        \cup [out : {o \in HttpOutcomes : o.body = "object"},
               entries : EntryLists, next : BOOLEAN]

\* get_collections, lines 115-166: the loop over the pages, from page k of
\* `pages`, with n collections loaded so far.
RECURSIVE GetCollectionsFrom(_, _, _, _)
GetCollectionsFrom(pages, k, calls, n) ==
    LET o == pages[k].out
        now == Append(calls, Call("GET", <<"/collections", k>>, o))
    IN  IF o.exc # "none"
        THEN Result("get_collections", now, Except("get_collections", o.exc, "list"), n)
        ELSE IF o.status # 200 THEN Result("get_collections", now, "list", n)
        ELSE IF o.body = "notjson"
        THEN Result("get_collections", now,
                    Except("get_collections", "JSONDecodeError", "list"), n)
        ELSE IF o.body = "nokey" THEN Result("get_collections", now, "list", n)
        ELSE IF pages[k].next /\ k < Len(pages)
        THEN GetCollectionsFrom(pages, k + 1, now, n + CountParsed(pages[k].entries))
        ELSE Result("get_collections", now, "list", n + CountParsed(pages[k].entries))

GetCollections(pages) == GetCollectionsFrom(pages, 1, <<>>, 0)

NoOperation == Result("none", <<>>, "none", 0)

StacInit == last = NoOperation

CheckApiAvailabilityOp ==
    /\ UNCHANGED notCalls
    /\ last = NoOperation
    /\ \E o \in HttpOutcomes : last' = CheckApiAvailability(o)
    /\ UNCHANGED health

GetApiInfoOp ==
    /\ UNCHANGED notCalls
    /\ last = NoOperation
    /\ \E o \in HttpOutcomes : last' = GetApiInfo(o)
    /\ UNCHANGED health

CheckCollectionExistsOp ==
    /\ UNCHANGED notCalls
    /\ last = NoOperation
    /\ \E o \in HttpOutcomes : last' = CheckCollectionExists(o)
    /\ UNCHANGED health

GetCollectionsOp ==
    /\ UNCHANGED notCalls
    /\ last = NoOperation
    /\ \E n \in 1..MaxPages : \E pages \in [1..n -> Pages] :
        last' = GetCollections(pages)
    /\ UNCHANGED health

GetCollectionOp ==
    /\ UNCHANGED notCalls
    /\ last = NoOperation
    /\ \E o \in HttpOutcomes : last' = GetCollection(o)
    /\ UNCHANGED health

GetItemsOp ==
    /\ UNCHANGED notCalls
    /\ last = NoOperation
    /\ \E o \in HttpOutcomes, entries \in EntryLists : last' = GetItems(o, entries)
    /\ UNCHANGED health

GetItemOp ==
    /\ UNCHANGED notCalls
    /\ last = NoOperation
    /\ \E o \in HttpOutcomes : last' = GetItem(o)
    /\ UNCHANGED health

SearchItemsOp ==
    /\ UNCHANGED notCalls
    /\ last = NoOperation
    /\ \E post \in HttpOutcomes, get \in HttpOutcomes, entries \in EntryLists :
        last' = SearchItems(post, get, entries)
    /\ UNCHANGED health

StacNext ==
    \/ CheckApiAvailabilityOp
    \/ GetApiInfoOp
    \/ CheckCollectionExistsOp
    \/ GetCollectionsOp
    \/ GetCollectionOp
    \/ GetItemsOp
    \/ GetItemOp
    \/ SearchItemsOp

(***************************************************************************)
(*                     src/main.py: GET /status                            *)
(***************************************************************************)

max_retries == 2

\* What one attempt of lines 402-411 can give: SELECT 1 returns 1, returns
\* something else, or the connection or the query raises.
AttemptOutcomes ==
    {"one", "not_one", "OperationalError", "PoolTimeout", "Exception"}

\* Mutant of PingLoop: the inner except clause of line 412 catches every
\* exception, so an unexpected error is retried like a connection error.
RECURSIVE PingLoopCatchesAll(_, _, _)
PingLoopCatchesAll(outs, attempt, tried) ==
    IF attempt = max_retries
    THEN [db_online |-> FALSE, db_error |-> "None", attempts |-> tried]
    ELSE LET o == outs[attempt + 1]
             now == Append(tried, o)
         IN  IF o = "one"
             THEN [db_online |-> TRUE, db_error |-> "None", attempts |-> now]
             ELSE IF o = "not_one" THEN PingLoopCatchesAll(outs, attempt + 1, now)
             ELSE IF attempt = max_retries - 1
             THEN [db_online |-> FALSE,
                   db_error |-> "Database connection failed after attempts",
                   attempts |-> now]
             ELSE PingLoopCatchesAll(outs, attempt + 1, now)

\* The for loop of lines 396-421 from attempt number `attempt` (from 0), and
\* the except clause of lines 423-426 around it.
RECURSIVE PingLoop(_, _, _)
PingLoop(outs, attempt, tried) ==
    IF attempt = max_retries
    THEN [db_online |-> FALSE, db_error |-> "None", attempts |-> tried]
    ELSE LET o == outs[attempt + 1]
             now == Append(tried, o)
         IN  IF o = "one"
             THEN [db_online |-> TRUE, db_error |-> "None", attempts |-> now]
             ELSE IF o = "not_one" THEN PingLoop(outs, attempt + 1, now)
             ELSE IF o \in {"OperationalError", "PoolTimeout"}
             THEN (IF attempt = max_retries - 1
                   THEN [db_online |-> FALSE,
                         db_error |-> "Database connection failed after attempts",
                         attempts |-> now]
                   ELSE PingLoop(outs, attempt + 1, now))
             ELSE [db_online |-> FALSE, db_error |-> "Unexpected error",
                   attempts |-> now]

\* ping, lines 374-449: the response's database_online, its database_error
\* ("None": the field is absent), and the attempts made.
Ping(pool_initialized, outs) ==
    [op |-> "ping"] @@
    (IF ~pool_initialized
     THEN [db_online |-> FALSE, db_error |-> "Database pool not initialized",
           attempts |-> <<>>]
     ELSE PingLoop(outs, 0, <<>>))

NoRequest ==
    [op |-> "none", db_online |-> FALSE, db_error |-> "None", attempts |-> <<>>]

PingInit == health = NoRequest

PingOp ==
    /\ UNCHANGED notCalls
    /\ health = NoRequest
    /\ \E pool_initialized \in BOOLEAN, outs \in [1..max_retries -> AttemptOutcomes] :
        health' = Ping(pool_initialized, outs)
    /\ UNCHANGED last

CallsIdle == StacInit /\ PingInit

(***************************************************************************)
(*                       src/fcst/download.py                              *)
(***************************************************************************)

n_workers == 2

\* Bound: the last day --time-end can name (days are numbered from 0).
MaxDay == 9

NoDate == -1

Workers == 1..n_workers

\* np.arange(time_beg, time_end, np.timedelta64(1, "D")), line 126: the days
\* from time_beg up to, not including, time_end.
Dates(beg, end) ==
    IF end > beg THEN [i \in 1..(end - beg) |-> beg + i - 1] ELSE <<>>

\* Pool._map_async: chunksize, extra = divmod(len, len(pool) * 4), one more
\* when extra is not 0, and 0 for an empty iterable.
ChunkSize(len) ==
    IF len = 0 THEN 0
    ELSE (len \div (n_workers * 4)) + (IF len % (n_workers * 4) # 0 THEN 1 ELSE 0)

Min(a, b) == IF a < b THEN a ELSE b

\* Pool._get_tasks: the iterable cut in slices of `size`, in order.
RECURSIVE Chunks(_, _)
Chunks(seq, size) ==
    IF seq = <<>> THEN <<>>
    ELSE <<SubSeq(seq, 1, Min(size, Len(seq)))>>
            \o Chunks(SubSeq(seq, Min(size, Len(seq)) + 1, Len(seq)), size)

Idle == [state |-> "idle", chunk |-> <<>>, pos |-> 0, exc |-> NoDate]

PoolIdle ==
    /\ time_beg = 0
    /\ time_end = 0
    /\ run = "start"
    /\ taskqueue = <<>>
    /\ worker = [w \in Workers |-> Idle]
    /\ handed = [d \in 0..MaxDay |-> 0]
    /\ completed = {}
    /\ first_raised = NoDate
    /\ number_left = 0
    /\ success = TRUE
    /\ value = NoDate

PoolInit ==
    /\ time_beg \in 0..1
    /\ time_end \in 0..MaxDay
    /\ run = "start"
    /\ taskqueue = <<>>
    /\ worker = [w \in Workers |-> Idle]
    /\ handed = [d \in 0..MaxDay |-> 0]
    /\ completed = {}
    /\ first_raised = NoDate
    /\ number_left = 0
    /\ success = TRUE
    /\ value = NoDate

\* Lines 149-150: pool.starmap(get_date, args) puts the chunks of the dates
\* on the task queue and waits for the MapResult; with no date it returns
\* at once.
Starmap ==
    /\ UNCHANGED notPool
    /\ run = "start"
    /\ LET dates == Dates(time_beg, time_end)
           tasks == Chunks(dates, ChunkSize(Len(dates)))
       IN  /\ taskqueue' = tasks
           /\ number_left' = Len(tasks)
           /\ run' = IF dates = <<>> THEN "returned" ELSE "mapping"
    /\ UNCHANGED <<time_beg, time_end, worker, handed, completed,
                   first_raised, success, value>>

\* Mutant of TakeTask: the chunk is read but left on the task queue until
\* its first date has been started.
TakeTaskLeavesIt(w) ==
    /\ UNCHANGED notPool
    /\ run = "mapping"
    /\ worker[w].state = "idle"
    /\ taskqueue # <<>>
    /\ worker' = [worker EXCEPT ![w] =
            [state |-> "taken", chunk |-> Head(taskqueue), pos |-> 1, exc |-> NoDate]]
    /\ taskqueue' = IF handed[Head(taskqueue)[1]] = 0
                    THEN taskqueue ELSE Tail(taskqueue)
    /\ UNCHANGED <<time_beg, time_end, run, handed, completed, first_raised,
                   number_left, success, value>>

\* A pool worker takes the next chunk off the task queue.
TakeTask(w) ==
    /\ UNCHANGED notPool
    /\ run = "mapping"
    /\ worker[w].state = "idle"
    /\ taskqueue # <<>>
    /\ worker' = [worker EXCEPT ![w] =
            [state |-> "taken", chunk |-> Head(taskqueue), pos |-> 1, exc |-> NoDate]]
    /\ taskqueue' = Tail(taskqueue)
    /\ UNCHANGED <<time_beg, time_end, run, handed, completed, first_raised,
                   number_left, success, value>>

\* The worker calls get_date (lines 14-77) on the next date of its chunk.
StartDate(w) ==
    /\ UNCHANGED notPool
    /\ run = "mapping"
    /\ worker[w].state = "taken"
    /\ worker' = [worker EXCEPT ![w].state = "executing"]
    /\ handed' = [handed EXCEPT ![worker[w].chunk[worker[w].pos]] = @ + 1]
    /\ UNCHANGED <<time_beg, time_end, run, taskqueue, completed, first_raised,
                   number_left, success, value>>

\* get_date returns, or raises: nothing in get_date, in
\* loop_over_url_data_retrieval or in retrieve_url_data catches the error of
\* a failed retrieval.  A raise ends the worker's chunk: the dates after it
\* in the chunk are not called.
FinishDate(w) ==
    /\ UNCHANGED notPool
    /\ run = "mapping"
    /\ worker[w].state = "executing"
    /\ LET d == worker[w].chunk[worker[w].pos]
       IN  \E raises \in BOOLEAN :
            IF raises
            THEN /\ worker' = [worker EXCEPT ![w].state = "reporting", ![w].exc = d]
                 /\ first_raised' = IF first_raised = NoDate THEN d ELSE first_raised
                 /\ UNCHANGED completed
            ELSE /\ completed' = completed \cup {d}
                 /\ worker' = [worker EXCEPT
                        ![w].state = IF worker[w].pos = Len(worker[w].chunk)
                                     THEN "reporting" ELSE "taken",
                        ![w].pos = @ + 1]
                 /\ UNCHANGED first_raised
    /\ UNCHANGED <<time_beg, time_end, run, taskqueue, handed, number_left,
                   success, value>>

\* Mutant of Report: the MapResult is ready at the first failed chunk.
ReportFailsFast(w) ==
    /\ UNCHANGED notPool
    /\ run = "mapping"
    /\ worker[w].state = "reporting"
    /\ worker' = [worker EXCEPT ![w] = Idle]
    /\ number_left' = number_left - 1
    /\ success' = (success /\ worker[w].exc = NoDate)
    /\ value' = IF success /\ worker[w].exc # NoDate THEN worker[w].exc ELSE value
    /\ run' = IF ~success' THEN "raised"
              ELSE IF number_left' = 0 THEN "returned"
              ELSE "mapping"
    /\ UNCHANGED <<time_beg, time_end, taskqueue, handed, completed, first_raised>>

\* The worker's result reaches MapResult._set: only the first exception is
\* stored, and the result is ready once all chunks are done; starmap then
\* returns or raises the stored exception, and leaving the with block
\* terminates the pool.
Report(w) ==
    /\ UNCHANGED notPool
    /\ run = "mapping"
    /\ worker[w].state = "reporting"
    /\ worker' = [worker EXCEPT ![w] = Idle]
    /\ number_left' = number_left - 1
    /\ success' = (success /\ worker[w].exc = NoDate)
    /\ value' = IF success /\ worker[w].exc # NoDate THEN worker[w].exc ELSE value
    /\ run' = IF number_left' > 0 THEN "mapping"
              ELSE IF success' THEN "returned"
              ELSE "raised"
    /\ UNCHANGED <<time_beg, time_end, taskqueue, handed, completed, first_raised>>

PoolNext ==
    \/ Starmap
    \/ \E w \in Workers : TakeTask(w)
    \/ \E w \in Workers : StartDate(w)
    \/ \E w \in Workers : FinishDate(w)
    \/ \E w \in Workers : Report(w)

(***************************************************************************)
(*                          src/config.py                                  *)
(***************************************************************************)

\* Python values as the code tells them apart: None, a str, a dict (a JSON
\* object), and a key that a JSON object does not have.  v is the text of a
\* str, or the content of a dict, as a sequence of tokens.
PyNone == [t |-> "none", v |-> <<>>]

Missing == [t |-> "missing", v |-> <<>>]

Str(x) == [t |-> "str", v |-> x]

Dict(x) == [t |-> "dict", v |-> x]

\* Truth value of `if x` / `x or y` / `not x`: None, '' and {} are false.
Truthy(x) == x.t \in {"str", "dict"} /\ x.v # <<>>

Or(x, y) == IF Truthy(x) THEN x ELSE y

\* json.dumps of a dict (line 43): a str holding the object's JSON text.
JsonDumps(x) == Str(<<"{">> \o x.v \o <<"}">>)

\* dict.get(key, default) on the parsed config (lines 34-36).
Get(x, default) == IF x = Missing THEN default ELSE x

DefaultBucket == Str(<<"plotpotential-public">>)

DefaultProject == Str(<<"default-project-id">>)

\* os.environ: a variable is unset (os.environ.get gives None) or a str.
Environ(c, b, p) ==
    [GCS_CREDENTIALS |-> c, GCS_BUCKET_NAME |-> b, GOOGLE_CLOUD_PROJECT |-> p]

Environs ==
    {Environ(c, b, p) : c \in {PyNone, Str(<<>>), Str(<<"env-key">>)},
                        b \in {PyNone, Str(<<"env-bucket">>)},
                        p \in {PyNone, Str(<<"env-project">>)}}

\* .config/gcs_config.json: absent, not parseable, or a JSON object.
Config(c, b, p) == [credentials |-> c, bucket |-> b, project_id |-> p]

File(state, config) == [state |-> state, config |-> config]

NoConfig == Config(Missing, Missing, Missing)

ConfigFiles ==
    {File("absent", NoConfig), File("corrupt", NoConfig)} \cup
    {File("json", Config(c, b, p)) :
        c \in {Missing, Str(<<>>), Str(<<"key">>), Dict(<<"key">>)},
        b \in {Missing, Str(<<>>), Str(<<"bucket">>)},
        p \in {Missing, Str(<<"project">>)}}

\* Mutant of LoadGcsConfig: the environment's bucket and project win over
\* the file's (`gcs_bucket or config.get('bucket')`).
LoadGcsConfigEnvFirst(e, f) ==
    LET c0 == e.GCS_CREDENTIALS
        b0 == e.GCS_BUCKET_NAME
        p0 == e.GOOGLE_CLOUD_PROJECT
        parsed == ~Truthy(c0) /\ f.state = "json"
        c1 == IF parsed THEN Get(f.config.credentials, PyNone) ELSE c0
        b1 == IF parsed THEN Or(b0, Get(f.config.bucket, PyNone)) ELSE b0
        p1 == IF parsed THEN Or(p0, Get(f.config.project_id, PyNone)) ELSE p0
    IN  [ret |-> Config(c1, Or(b1, DefaultBucket), Or(p1, DefaultProject)),
         env |-> IF parsed /\ Truthy(c1)
                 THEN Environ(IF c1.t = "dict" THEN JsonDumps(c1) ELSE c1,
                              Or(b1, b0), Or(p1, p0))
                 ELSE e]

\* load_gcs_config, lines 21-61, on environment e and file f: the returned
\* dict and the environment it leaves.  A file that cannot be parsed raises
\* inside the try block at line 32, before any assignment (lines 54-55).
LoadGcsConfig(e, f) ==
    LET c0 == e.GCS_CREDENTIALS
        b0 == e.GCS_BUCKET_NAME
        p0 == e.GOOGLE_CLOUD_PROJECT
        parsed == ~Truthy(c0) /\ f.state = "json"
        c1 == IF parsed THEN Get(f.config.credentials, PyNone) ELSE c0
        b1 == IF parsed THEN Get(f.config.bucket, b0) ELSE b0
        p1 == IF parsed THEN Get(f.config.project_id, p0) ELSE p0
    IN  [ret |-> Config(c1, Or(b1, DefaultBucket), Or(p1, DefaultProject)),
         env |-> IF parsed /\ Truthy(c1)
                 THEN Environ(IF c1.t = "dict" THEN JsonDumps(c1) ELSE c1,
                              Or(b1, b0), Or(p1, p0))
                 ELSE e]

\* os.environ.get(name, default) (lines 69-70): the default only stands in
\* for an unset variable.
EnvironGet(x, default) == IF x = PyNone THEN default ELSE x

\* save_gcs_config, lines 63-80: the file it leaves.  open() can fail (the
\* file stays as it was) and the write can fail after open() truncated the
\* file; both are caught and make it return False.
SaveGcsConfig(e, f, credentials, bucket, project_id, io) ==
    IF io = "open_fails" THEN f
    ELSE IF io = "write_fails" THEN File("corrupt", NoConfig)
    ELSE File("json",
              Config(credentials,
                     Or(bucket, EnvironGet(e.GCS_BUCKET_NAME, DefaultBucket)),
                     Or(project_id,
                        EnvironGet(e.GOOGLE_CLOUD_PROJECT, DefaultProject))))

IoOutcomes == {"ok", "open_fails", "write_fails"}

\* The calls made so far, oldest first.
ConfigCall(op, args, e, ok, ret) ==
    [op |-> op, args |-> args, env |-> e, ok |-> ok, ret |-> ret]

\* How many load_gcs_config calls one run of the model makes.
MaxLoads == 2

Loads == {i \in 1..Len(config_calls) : config_calls[i].op = "load"}

Saves == {i \in 1..Len(config_calls) : config_calls[i].op = "save"}

ConfigIdle ==
    /\ environ = Environ(PyNone, PyNone, PyNone)
    /\ config_file = File("absent", NoConfig)
    /\ config_calls = <<>>

ConfigInit ==
    /\ environ \in Environs
    /\ config_file \in ConfigFiles
    /\ config_calls = <<>>

\* One call of save_gcs_config(credentials, bucket, project_id).
SaveGcsConfigCall ==
    /\ UNCHANGED notConfig
    /\ Saves = {}
    /\ \E credentials \in {Str(<<>>), Str(<<"new-key">>), Dict(<<"new-key">>)},
          bucket \in {PyNone, Str(<<"new-bucket">>)},
          project_id \in {PyNone, Str(<<"new-project">>)},
          io \in IoOutcomes :
        /\ config_file' = SaveGcsConfig(environ, config_file, credentials,
                                        bucket, project_id, io)
        /\ config_calls' =
              Append(config_calls,
                     ConfigCall("save", Config(credentials, bucket, project_id),
                                environ, io = "ok", NoConfig))
    /\ UNCHANGED environ

\* One call of load_gcs_config().
LoadGcsConfigCall ==
    /\ UNCHANGED notConfig
    /\ Cardinality(Loads) < MaxLoads
    /\ LET r == LoadGcsConfig(environ, config_file)
       IN  /\ environ' = r.env
           /\ config_calls' =
                 Append(config_calls,
                        ConfigCall("load", NoConfig, environ, TRUE, r.ret))
    /\ UNCHANGED config_file

ConfigNext ==
    \/ SaveGcsConfigCall
    \/ LoadGcsConfigCall

(***************************************************************************)
(*                            src/app.py                                   *)
(***************************************************************************)

\* json.dumps (line 261) of a request's credentials: a JSON object for a
\* dict, a quoted JSON string for a str.
Dumps(x) ==
    IF x.t = "dict" THEN JsonDumps(x) ELSE Str(<<"quote">> \o x.v \o <<"quote">>)

\* json.loads (line 37) of a text: the dict or str it denotes, or a
\* JSONDecodeError.
JsonLoads(text) ==
    LET n == Len(text)
    IN  IF n >= 2 /\ text[1] = "{" /\ text[n] = "}"
        THEN [ok |-> TRUE, value |-> Dict(SubSeq(text, 2, n - 1))]
        ELSE IF n >= 2 /\ text[1] = "quote" /\ text[n] = "quote"
        THEN [ok |-> TRUE, value |-> Str(SubSeq(text, 2, n - 1))]
        ELSE [ok |-> FALSE, value |-> PyNone]

\* The service account keys Google accepts.
ServiceAccounts == {"sa1", "sa2"}

\* service_account.Credentials.from_service_account_info and storage.Client
\* (lines 38-39) succeed on the info dict of a service account and raise on
\* anything else.
Usable(info) ==
    info.t = "dict" /\ Len(info.v) = 1 /\ info.v[1] \in ServiceAccounts

\* Mutant of InitializeGcsClient: a failure leaves the installed client.
InitializeKeepsClient(e, old) ==
    LET creds == e.GCS_CREDENTIALS
        bucket == EnvironGet(e.GCS_BUCKET_NAME, DefaultBucket)
        parsed == JsonLoads(creds.v)
        made(result, client) ==
            [result |-> result, storage_client |-> client,
             GCS_CREDENTIALS |-> creds, GCS_BUCKET_NAME |-> bucket]
    IN  IF Truthy(creds)
        THEN IF ~parsed.ok THEN made(FALSE, old)
             ELSE IF Usable(parsed.value) THEN made(TRUE, parsed.value.v[1])
             ELSE made(FALSE, old)
        ELSE made(TRUE, "None")

\* initialize_gcs_client, lines 23-54, on environment e: its return value
\* and the globals it leaves.  `old` is the client installed before.
InitializeGcsClient(e, old) ==
    LET creds == e.GCS_CREDENTIALS
        bucket == EnvironGet(e.GCS_BUCKET_NAME, DefaultBucket)
        parsed == JsonLoads(creds.v)
        made(result, client) ==
            [result |-> result, storage_client |-> client,
             GCS_CREDENTIALS |-> creds, GCS_BUCKET_NAME |-> bucket]
    IN  IF Truthy(creds)
        THEN IF ~parsed.ok THEN made(FALSE, "None")
             ELSE IF Usable(parsed.value) THEN made(TRUE, parsed.value.v[1])
             ELSE made(FALSE, "None")
        ELSE made(TRUE, "None")

\* The answer of a credential endpoint; `init` is what initialize_gcs_client
\* returned ("not_called" when the handler answered before calling it) and
\* `before` the client installed when the request came in.
CredAnswer(endpoint, init, status, authenticated, before) ==
    [endpoint |-> endpoint, init |-> init, status |-> status,
     authenticated |-> authenticated, before |-> before]

NoCredCall == CredAnswer("none", "not_called", 0, FALSE, "None")

\* /api/cog-status, lines 81-105.
CogStatus ==
    [auth_status |-> IF storage_client # "None" THEN "authenticated"
                     ELSE "unauthenticated",
     gcs_authenticated |-> storage_client # "None",
     bucket_name |-> GCS_BUCKET_NAME,
     has_credentials |-> GCS_CREDENTIALS # PyNone]

\* /api/test-gcs-auth, lines 292-333; listing says whether list_blobs worked.
TestGcsAuth(listing) ==
    IF storage_client = "None"
    THEN [status |-> 400, authenticated |-> FALSE]
    ELSE IF listing THEN [status |-> 200, authenticated |-> TRUE]
    ELSE [status |-> 500, authenticated |-> FALSE]

\* ---- /proxy/gcs/<path:file_path> ----

\* Longest request path, in characters.
MaxPathLen == 3

\* Largest byte position named in a Range header.
MaxByte == 2

\* Largest blob, in bytes.
MaxBlobSize == 3

\* The route's path converter matches a non-empty path that does not start
\* with a slash.
Paths ==
    {p \in UNION {[1..n -> {"/", "a", "b"}] : n \in 1..MaxPathLen} : p[1] # "/"}

\* '/' in file_path (line 114).
HasSlash(path) == \E i \in 1..Len(path) : path[i] = "/"

\* file_path.split('/', 1) (line 115).
SplitOnce(path) ==
    IF HasSlash(path)
    THEN LET k == CHOOSE i \in 1..Len(path) :
                    /\ path[i] = "/"
                    /\ \A j \in 1..(i - 1) : path[j] # "/"
         IN  <<SubSeq(path, 1, k - 1), SubSeq(path, k + 1, Len(path))>>
    ELSE <<path>>

\* Mutant of ResolveBucket: the configured bucket is used for every path.
ResolveDefaultBucket(file_path, configured) ==
    [bucket_name |-> configured, blob_name |-> file_path]

\* proxy_gcs, lines 114-123: the bucket and the object a path names.
ResolveBucket(file_path, configured) ==
    IF HasSlash(file_path)
    THEN LET parts == SplitOnce(file_path)
         IN  IF Len(parts) = 2
             THEN [bucket_name |-> Str(parts[1]), blob_name |-> parts[2]]
             ELSE [bucket_name |-> configured, blob_name |-> file_path]
    ELSE [bucket_name |-> configured, blob_name |-> file_path]

\* The Range header: absent, 'bytes=first-last', or 'bytes=first-' (NoLast).
NoLast == -1

Range(unit, a, b) == [unit |-> unit, first |-> a, last |-> b]

NoRange == Range("none", 0, 0)

Ranges ==
    {NoRange} \cup
    {Range("bytes", a, b) : a \in 0..MaxByte, b \in (0..MaxByte) \cup {NoLast}}

\* A response of proxy_gcs.  via: the branch that answered; error: the
\* exception caught at line 208; content_range: first, last and total of the
\* Content-Range header; requested: first and last byte asked from storage;
\* body: the bytes storage returned and the response carries.
Response(via, status, error, content_range, content_length, requested, body) ==
    [via |-> via, status |-> status, error |-> error,
     content_range |-> content_range, content_length |-> content_length,
     requested |-> requested, body |-> body]

Failed500(via, error) == Response(via, 500, error, <<>>, -1, <<>>, 0)

Min2(a, b) == IF a < b THEN a ELSE b

\* blob.download_to_file(content, start=start, end=end) on a blob of `size`
\* bytes: start is the first and end the LAST byte of the range asked from
\* storage ('Range: bytes=start-end'); storage returns the bytes of the range
\* that exist and refuses a range that starts at or after the end.
DownloadToFile(size, start, end) ==
    IF start >= size
    THEN [ok |-> FALSE, requested |-> <<start, end>>, body |-> 0]
    ELSE [ok |-> TRUE, requested |-> <<start, end>>,
          body |-> Min2(end, size - 1) - start + 1]

\* proxy_gcs, lines 139-172, with a client: the ranged or the full download.
\* blob.size is taken to be the size of the blob.
Download(range, size) ==
    IF range.unit = "bytes"
    THEN IF range.last = NoLast
         THEN Failed500("client", "ValueError")
         ELSE LET start == range.first
                  end == range.last + 1
                  got == DownloadToFile(size, start, end)
              IN  IF ~got.ok THEN Failed500("client", "storage")
                  ELSE Response("client", 206, "none", <<start, end - 1, size>>,
                                end - start, got.requested, got.body)
    ELSE Response("client", 200, "none", <<>>, size, <<0, size - 1>>, size)

\* proxy_gcs, lines 173-206, without a client: the request is passed to
\* storage.googleapis.com and its answer is passed back.
PublicFallback(range, size, answers) ==
    IF ~answers THEN Failed500("public", "requests")
    ELSE IF range.unit = "bytes" /\ range.last # NoLast /\ range.first < size
    THEN Response("public", 206, "none",
                  <<range.first, Min2(range.last, size - 1), size>>, -1,
                  <<range.first, range.last>>,
                  Min2(range.last, size - 1) - range.first + 1)
    ELSE Response("public", 200, "none", <<>>, -1, <<0, size - 1>>, size)

\* One /proxy/gcs request: where its handler is, what it was asked (path,
\* Range header), the size of the blob it names, the configured bucket and
\* the bucket and object it resolved, the client it saw at line 137, and its
\* response.
Request(at, path, range, size, configured, target, seen, resp) ==
    [at |-> at, path |-> path, range |-> range, size |-> size,
     configured |-> configured, target |-> target, seen |-> seen,
     resp |-> resp]

\* The requests made: every path without a Range header, and every Range
\* header on blobs of every size under one path.
ProxyInputs ==
    {<<p, NoRange, MaxBlobSize>> : p \in Paths} \cup
    {<<(<<"a", "/", "b">>), r, n>> : r \in Ranges \ {NoRange}, n \in 1..MaxBlobSize}

NoTarget == [bucket_name |-> PyNone, blob_name |-> <<>>]

NoResponse == Response("none", 0, "none", <<>>, -1, <<>>, 0)

NoProxyRequest ==
    Request("idle", <<>>, NoRange, 0, PyNone, NoTarget, "None", NoResponse)

AppIdle ==
    /\ app_environ = Environ(PyNone, PyNone, PyNone)
    /\ storage_client = "None"
    /\ GCS_CREDENTIALS = PyNone
    /\ GCS_BUCKET_NAME = DefaultBucket
    /\ cred = NoCredCall
    /\ proxy = NoProxyRequest

\* The module after import: lines 19-20 and the initialize_gcs_client() call
\* of line 58 on the environment the process was started with.
AppInit ==
    /\ app_environ \in
          {Environ(c, b, PyNone) :
              c \in {PyNone, Str(<<>>), Str(<<"not-json">>),
                     Str(<<"{", "no-key", "}">>), Str(<<"{", "sa1", "}">>)},
              b \in {PyNone, Str(<<"env-bucket">>)}}
    /\ LET made == InitializeGcsClient(app_environ, "None")
       IN  /\ storage_client = made.storage_client
           /\ GCS_CREDENTIALS = made.GCS_CREDENTIALS
           /\ GCS_BUCKET_NAME = made.GCS_BUCKET_NAME
    /\ cred = NoCredCall
    /\ proxy = NoProxyRequest

\* POST /api/refresh-credentials, lines 216-232.
RefreshCredentials ==
    /\ UNCHANGED notApp
    /\ LET made == InitializeGcsClient(app_environ, storage_client)
       IN  /\ storage_client' = made.storage_client
           /\ GCS_CREDENTIALS' = made.GCS_CREDENTIALS
           /\ GCS_BUCKET_NAME' = made.GCS_BUCKET_NAME
           /\ cred' = IF made.result
                      THEN CredAnswer("refresh", "True", 200, TRUE, storage_client)
                      ELSE CredAnswer("refresh", "False", 500, FALSE, storage_client)
    /\ UNCHANGED <<app_environ, proxy>>

\* The bodies posted to /api/set-credentials: one that get_json() cannot
\* parse, JSON that is not an object, or an object with or without
\* credentials (a dict, or a str holding JSON text) and a bucket.
Body(kind, c, b) == [kind |-> kind, credentials |-> c, bucket |-> b]

Bodies ==
    {Body("unparseable", Missing, Missing), Body("not_object", Missing, Missing)}
    \cup
    {Body("object", c, b) :
        c \in {Missing, Dict(<<"sa1">>), Dict(<<"sa2">>), Dict(<<"no-key">>),
               Str(<<"{", "sa2", "}">>)},
        b \in {Missing, Str(<<"new-bucket">>)}}

\* POST /api/set-credentials, lines 235-289.
SetCredentials ==
    /\ UNCHANGED notApp
    /\ \E data \in Bodies :
        LET credentials_json == data.credentials
            bucket_name == data.bucket
        IN
        IF data.kind # "object" \/ ~Truthy(credentials_json)
        THEN /\ cred' = CredAnswer("set", "not_called",
                                   IF data.kind = "unparseable" THEN 500 ELSE 400,
                                   FALSE, storage_client)
             /\ UNCHANGED <<app_environ, storage_client, GCS_CREDENTIALS,
                            GCS_BUCKET_NAME>>
        ELSE LET e == Environ(Dumps(credentials_json),
                              Or(bucket_name, app_environ.GCS_BUCKET_NAME),
                              app_environ.GOOGLE_CLOUD_PROJECT)
                 made == InitializeGcsClient(e, storage_client)
             IN  /\ app_environ' = e
                 /\ storage_client' = made.storage_client
                 /\ GCS_CREDENTIALS' = made.GCS_CREDENTIALS
                 /\ GCS_BUCKET_NAME' = made.GCS_BUCKET_NAME
                 /\ cred' = IF made.result
                            THEN CredAnswer("set", "True", 200, TRUE, storage_client)
                            ELSE CredAnswer("set", "False", 500, FALSE, storage_client)
    /\ UNCHANGED proxy

\* proxy_gcs, lines 111-137 and, without a client, lines 173-206: the path
\* is resolved, the Range header read and `if storage_client:` evaluated.
ProxyGcsBegin ==
    /\ UNCHANGED notApp
    /\ proxy.at = "idle"
    /\ \E in \in ProxyInputs, answers \in BOOLEAN :
        LET file_path == in[1]
            range == in[2]
            size == in[3]
            target == ResolveBucket(file_path, GCS_BUCKET_NAME)
        IN  proxy' =
              IF storage_client # "None"
              THEN Request("client_seen", file_path, range, size,
                           GCS_BUCKET_NAME, target, storage_client, NoResponse)
              ELSE Request("done", file_path, range, size, GCS_BUCKET_NAME,
                           target, "None", PublicFallback(range, size, answers))
    /\ UNCHANGED <<app_environ, storage_client, GCS_CREDENTIALS,
                   GCS_BUCKET_NAME, cred>>

\* proxy_gcs, lines 139-172: the global storage_client is read again at line
\* 139; when it is None by now, .bucket raises AttributeError, which the
\* handler of line 208 turns into a 500.
ProxyGcsDownload ==
    /\ UNCHANGED notApp
    /\ proxy.at = "client_seen"
    /\ proxy' = [proxy EXCEPT
                    !.at = "done",
                    !.resp = IF storage_client = "None"
                             THEN Failed500("client", "AttributeError")
                             ELSE Download(proxy.range, proxy.size)]
    /\ UNCHANGED <<app_environ, storage_client, GCS_CREDENTIALS,
                   GCS_BUCKET_NAME, cred>>

AppNext ==
    \/ RefreshCredentials
    \/ SetCredentials
    \/ ProxyGcsBegin
    \/ ProxyGcsDownload

(***************************************************************************)
(*                 src/cli.py: STACExplorerCLI.export_metadata             *)
(***************************************************************************)

\* _get_csv_fieldnames looks at the first 10 items only (line 309).
SampleSize == 10

\* Most items a collection holds.
MaxItems == 11

\* The property keys an item can carry besides the fixed fields.
PropertyKeys == {"eo:cloud_cover"}

\* An item as export_metadata sees it: its id and the keys of its properties.
Item(i, keys) == [id |-> i, properties |-> keys]

ItemLists ==
    UNION {{[i \in 1..n |-> Item(i, keys[i])] :
                keys \in [1..n -> SUBSET PropertyKeys]} : n \in 0..MaxItems}

\* The keys of _flatten_item_dict(item), lines 320-339: six fixed columns and
\* one column 'property_<key>' per property.
FixedFields ==
    {<<"asset_count">>, <<"bbox">>, <<"collection">>, <<"datetime">>,
     <<"geometry_type">>, <<"id">>}

FlattenItemDict(item) ==
    FixedFields \cup {<<"property", k>> : k \in item.properties}

Least(a, b) == IF a < b THEN a ELSE b

\* _get_csv_fieldnames, lines 306-311: the columns of the first SampleSize
\* items (the sorted list, taken as the set of its elements).
GetCsvFieldnames(items) ==
    UNION {FlattenItemDict(items[i]) : i \in 1..Least(SampleSize, Len(items))}

\* The lines of the output file.
Header(fieldnames) == [kind |-> "header", id |-> 0, fields |-> fieldnames]

Row(item, fieldnames) == [kind |-> "row", id |-> item.id, fields |-> fieldnames]

\* What an export leaves: the file (its lines, or absent), the message and
\* the exception the message reports.
Export(op, format, exists, retrieved, file, lines, message, error) ==
    [op |-> op, format |-> format, exists |-> exists, retrieved |-> retrieved,
     file |-> file, lines |-> lines, message |-> message, error |-> error]

NoExport == Export("none", "none", FALSE, <<>>, "absent", <<>>, "none", "none")

\* Lines 192-195 from item k on; `written` counts the write calls made and
\* the write call number fail_at raises OSError (0: none does).
\* DictWriter.writerow raises ValueError for a row with a key that is not
\* among the fieldnames (extrasaction defaults to 'raise'); a key the row
\* lacks is written as an empty cell.
RECURSIVE WriteRows(_, _, _, _, _)
WriteRows(items, fieldnames, k, lines, fail_at) ==
    IF k > Len(items) THEN [lines |-> lines, error |-> "none"]
    ELSE IF ~(FlattenItemDict(items[k]) \subseteq fieldnames)
    THEN [lines |-> lines, error |-> "ValueError"]
    ELSE IF fail_at = k + 1 THEN [lines |-> lines, error |-> "OSError"]
    ELSE WriteRows(items, fieldnames, k + 1,
                   Append(lines, Row(items[k], fieldnames)), fail_at)

\* Lines 188-195: the csv file of a collection's items.
WriteCsv(items, fail_at) ==
    IF items = <<>> THEN [lines |-> <<>>, error |-> "none"]
    ELSE IF fail_at = 1 THEN [lines |-> <<>>, error |-> "OSError"]
    ELSE LET fieldnames == GetCsvFieldnames(items)
         IN  WriteRows(items, fieldnames, 1, <<Header(fieldnames)>>, fail_at)

\* Lines 184-185: the json file, one entry for the collection and one per
\* item, written by one json.dump.
WriteJson(items, fail_at) ==
    IF fail_at # 0 THEN [lines |-> <<>>, error |-> "OSError"]
    ELSE [lines |-> [i \in 1..Len(items) |-> Row(items[i], FlattenItemDict(items[i]))],
          error |-> "none"]

\* export_metadata(collection_id, format_type), lines 153-206, for a
\* collection id: `exists` is what check_collection_exists returned, `items`
\* what get_items returned, opens whether open() worked.
ExportMetadata(exists, items, format_type, opens, fail_at) ==
    IF ~exists
    THEN Export("export", format_type, FALSE, <<>>, "absent", <<>>,
                "does not exist", "none")
    ELSE IF ~opens
    THEN Export("export", format_type, TRUE, items, "absent", <<>>, "error",
                "OSError")
    ELSE LET out == IF format_type = "json" THEN WriteJson(items, fail_at)
                    ELSE WriteCsv(items, fail_at)
         IN  Export("export", format_type, TRUE, items, "written", out.lines,
                    IF out.error = "none" THEN "success" ELSE "error",
                    out.error)

CliIdle ==
    /\ catalog = <<>>
    /\ exported = NoExport

CliInit ==
    /\ catalog \in ItemLists
    /\ exported = NoExport

\* One run of `export` for a collection of the catalog.
ExportMetadataCall ==
    /\ UNCHANGED notCli
    /\ exported = NoExport
    /\ \E exists \in BOOLEAN, format_type \in {"json", "csv"},
          opens \in BOOLEAN, fail_at \in 0..(Len(catalog) + 1) :
        exported' = ExportMetadata(exists, catalog, format_type, opens, fail_at)
    /\ UNCHANGED catalog

CliNext == ExportMetadataCall

\* Each specification runs one program and leaves the others at rest.
InitLauncher ==
    LauncherInit /\ IndexIdle /\ CallsIdle /\ PoolIdle /\ ConfigIdle
    /\ AppIdle /\ CliIdle

SpecLauncher == InitLauncher /\ [][LauncherNext]_vars

InitIndex ==
    IndexInit /\ LauncherInit /\ CallsIdle /\ PoolIdle /\ ConfigIdle
    /\ AppIdle /\ CliIdle

SpecIndex == InitIndex /\ [][IndexNext]_vars

InitCalls ==
    CallsIdle /\ LauncherInit /\ IndexIdle /\ PoolIdle /\ ConfigIdle
    /\ AppIdle /\ CliIdle

SpecStac == InitCalls /\ [][StacNext]_vars

CallsNext ==
    \/ StacNext
    \/ PingOp

SpecCalls == InitCalls /\ [][CallsNext]_vars

InitPool ==
    PoolInit /\ LauncherInit /\ IndexIdle /\ CallsIdle /\ ConfigIdle
    /\ AppIdle /\ CliIdle

InitConfig ==
    ConfigInit /\ LauncherInit /\ IndexIdle /\ CallsIdle /\ PoolIdle
    /\ AppIdle /\ CliIdle

InitApp ==
    AppInit /\ LauncherInit /\ IndexIdle /\ CallsIdle /\ PoolIdle
    /\ ConfigIdle /\ CliIdle

InitCli ==
    CliInit /\ LauncherInit /\ IndexIdle /\ CallsIdle /\ PoolIdle
    /\ ConfigIdle /\ AppIdle

SpecCli == InitCli /\ [][CliNext]_vars

SpecApp == InitApp /\ [][AppNext]_vars

SpecConfig == InitConfig /\ [][ConfigNext]_vars

SpecPool == InitPool /\ [][PoolNext]_vars

\* The launcher's main thread keeps running its monitoring loop (a poll of
\* each process, then time.sleep(5)) for as long as it is in it.
FairSpecLauncher == SpecLauncher /\ WF_vars(MonitorPoll)

(***************************************************************************)
(*                 Claims about src/start_services.py                      *)
(***************************************************************************)

\* C1: when SIGTERM or SIGINT has been delivered after a child was spawned
\* (also between a spawn and its registration in `processes`), no spawned
\* child is still running once the launcher has exited.
C1_SignalStopsEveryChild ==
    (signalled /\ exit_code # "none") => Alive = {}

\* C2: Nginx is spawned only after TiTiler has been spawned and
\* wait_for_service has seen port 8000 accept a connection; when the wait
\* for TiTiler ran out of polls the launcher has exited with Nginx unspawned.
C2_NginxAfterTiTilerReady ==
    /\ child["Nginx"] # "none" =>
            (child["TiTiler"] # "none" /\ 8000 \in observed)
    /\ (pc \in {"spawn_nginx", "register_nginx", "wait_nginx", "monitor"}
            => 8000 \in observed)
    /\ (8000 \notin observed /\ polls >= MaxPolls) =>
            (pc = "exited" /\ child["Nginx"] = "none")

\* C2 witness: Nginx runs, after port 8000 was seen accepting.
C2_Witness ==
    /\ child["Nginx"] = "running"
    /\ child["TiTiler"] = "running"
    /\ 8000 \in observed

\* C3: in the monitoring loop, the poll of a supervised process that has
\* exited stops every other running process and ends the launcher, and with
\* the loop running a launcher that monitors a dead process always gets
\* there: it does not keep running with a single service alive.
C3_DeadChildEndsLauncher ==
    /\ [][(MonitorPoll /\ child[processes[mon_i]] # "running")
            => (pc' = "exited" /\ \A s \in Services : child'[s] # "running")]_vars
    /\ ((pc = "monitor" /\ Alive # Services)
            ~> (pc = "exited" /\ Alive = {}))

\* C3 witness: without any signal, both services were up, one exited on its
\* own, and the launcher has stopped the other one and exited.
C3_Witness ==
    /\ pc = "exited"
    /\ ~signalled
    /\ 5000 \in observed
    /\ \E s \in Services : child[s] = "exited"
    /\ \E s \in Services : child[s] \in {"terminated", "killed"}

(***************************************************************************)
(*                 Claims about src/grib-index/utils.py                    *)
(***************************************************************************)

KeysOf(df) == {df[i].attrs : i \in 1..Len(df)}

HasDuplicateKey(df) == Cardinality(KeysOf(df)) < Len(df)

\* C4: map_from_index raises ValueError and returns no index when the idx
\* table it is given or the mapping holds two rows with the same attrs, and
\* merges only when both sides have unique attrs.
C4_UniqueKeysEnforced ==
    mapped.call # "none" =>
        /\ (HasDuplicateKey(mapped.arg) \/ HasDuplicateKey(mapping))
                => (mapped.status = "ValueError" /\ mapped.rows = <<>>)
        /\ mapped.status = "ok"
                => (~HasDuplicateKey(mapped.arg) /\ ~HasDuplicateKey(mapping))

\* C4 witness: a call refused for a duplicate key in the mapping alone.
C4_Witness ==
    /\ mapped.call = "map_from_index"
    /\ mapped.status = "ValueError"
    /\ ~HasDuplicateKey(idxdf)
    /\ HasDuplicateKey(mapping)

\* The offsets of the idx rows of df whose key the mapping resolves.
ResolvedOffsets(df) ==
    {df[i].offset : i \in {k \in 1..Len(df) :
        \E j \in 1..Len(mapping) :
            mapping[j].attrs = df[k].attrs /\ mapping[j].varname # NaN}}

\* C5: with raw_merged false the result holds exactly the idx rows whose
\* attrs the mapping resolves to a varname: no row has a missing varname, no
\* idx row comes twice, and every row comes from an idx row.
C5_ExactlyResolvedRows ==
    (mapped.status = "ok" /\ ~mapped.raw_merged) =>
        /\ \A i \in 1..Len(mapped.rows) : mapped.rows[i].varname # NaN
        /\ \A i, j \in 1..Len(mapped.rows) :
                mapped.rows[i].offset = mapped.rows[j].offset => i = j
        /\ {mapped.rows[i].offset : i \in 1..Len(mapped.rows)}
                = ResolvedOffsets(mapped.arg)

\* C5 witness: a result that kept one idx row and dropped another.
C5_Witness ==
    /\ mapped.status = "ok"
    /\ ~mapped.raw_merged
    /\ Len(mapped.rows) = 1
    /\ Len(mapped.arg) = 2

\* C6: with raw_merged false every returned row has valid_time = time + step
\* and inline_value None.
C6_ValidTimeAndInline ==
    (mapped.status = "ok" /\ ~mapped.raw_merged) =>
        \A i \in 1..Len(mapped.rows) :
            /\ mapped.rows[i].valid_time = mapped.rows[i].time + mapped.rows[i].step
            /\ mapped.rows[i].inline_value = "None"

\* C6 witness: a returned row whose valid_time differs from the one the
\* mapping held.
C6_Witness ==
    /\ mapped.status = "ok"
    /\ ~mapped.raw_merged
    /\ \E i \in 1..Len(mapped.rows), j \in 1..Len(mapping) :
        /\ mapping[j].varname = mapped.rows[i].varname
        /\ mapping[j].step = mapped.rows[i].step
        /\ KeysOf(mapping) = {mapping[j].attrs}
        /\ mapping[j].valid_time # mapped.rows[i].valid_time
        /\ mapped.rows[i].step > 0

(***************************************************************************)
(*        Claims about src/stac_explorer.py and GET /status                *)
(***************************************************************************)

\* A request that failed: it raised or answered another status than 200.
RequestFailed(o) == o.exc # "none" \/ o.status # 200

\* A request that failed or whose body is not JSON.
Failed(o) == RequestFailed(o) \/ o.body = "notjson"

NoCallAfterFailure(calls) ==
    \A i \in 1..(Len(calls) - 1) : ~Failed(calls[i].out)

\* C7 as stated: no STACExplorer operation lets a failure reach its caller,
\* and on a request exception, a non-200 status or an unparseable body
\* check_api_availability and check_collection_exists return False,
\* get_api_info, get_collection and get_item return None, and
\* get_collections, get_items and search_items return a list.
C7_SentinelOnEveryFailure ==
    last.op # "none" =>
        /\ last.ret # "raised"
        /\ (last.op \in {"check_api_availability", "check_collection_exists"}
                /\ Failed(last.calls[1].out)) => last.ret = "False"
        /\ (last.op \in {"get_api_info", "get_collection", "get_item"}
                /\ Failed(last.calls[1].out)) => last.ret = "None"
        /\ last.op \in {"get_collections", "get_items", "search_items"}
                => last.ret = "list"

\* C7 as amended: as stated, but check_api_availability and
\* check_collection_exists never read the body: they return False on a
\* request exception or a non-200 status and True on every 200 response,
\* also one whose body is not JSON.  get_items and search_items return the
\* empty list when their last request failed.
C7_NoFailurePropagates ==
    last.op # "none" =>
        /\ last.ret # "raised"
        /\ last.op \in {"check_api_availability", "check_collection_exists"} =>
                last.ret = (IF RequestFailed(last.calls[1].out) THEN "False" ELSE "True")
        /\ (last.op \in {"get_api_info", "get_collection", "get_item"}
                /\ Failed(last.calls[1].out)) => last.ret = "None"
        /\ last.op \in {"get_collections", "get_items", "search_items"}
                => last.ret = "list"
        /\ (last.op \in {"get_items", "search_items"}
                /\ Failed(last.calls[Len(last.calls)].out)) => last.n = 0

\* C7 witness: search_items whose POST and fallback GET both raised, and
\* which returned its empty list.
C7_Witness ==
    /\ last.op = "search_items"
    /\ Len(last.calls) = 2
    /\ last.calls[2].out.exc = "ConnectionError"
    /\ last.ret = "list"
    /\ last.n = 0

InRange(d) == time_beg <= d /\ d < time_end

Executing == {w \in Workers : worker[w].state = "executing"}

\* The dates whose get_date raised: called, not returned, not running.
RaisedDates ==
    {d \in 0..MaxDay :
        /\ handed[d] > 0
        /\ d \notin completed
        /\ \A w \in Workers :
            ~(worker[w].state = "executing" /\ worker[w].chunk[worker[w].pos] = d)}

\* The number of the chunk of date d.
ChunkOf(d) == (d - time_beg) \div ChunkSize(Len(Dates(time_beg, time_end)))

C10_FailFast ==
    [][first_raised # NoDate => handed' = handed]_vars

\* C10 as amended: a raise makes the run fail, but only after every chunk
\* has been processed: starmap raises, with the first exception reported to
\* it, once no chunk is left, and never returns after a raise.  No date is
\* handed to get_date twice, and the dates never handed are those that
\* follow a date that raised in its chunk.
C10_FailsAfterAllChunks ==
    /\ \A d \in 0..MaxDay : handed[d] <= 1
    /\ run = "returned" => first_raised = NoDate
    /\ run = "raised" =>
            /\ first_raised # NoDate
            /\ value \in RaisedDates
            /\ number_left = 0
            /\ taskqueue = <<>>
            /\ \A d \in 0..MaxDay : InRange(d) =>
                    (handed[d] = 0 <=>
                        \E f \in RaisedDates : ChunkOf(f) = ChunkOf(d) /\ f < d)

\* C10 witness: the first date raised, the date after it in its chunk was
\* never run, the last date was still downloaded, and the run failed with
\* the first date's exception.
C10_Witness ==
    /\ run = "raised"
    /\ time_beg = 0
    /\ time_end = 9
    /\ first_raised = 0
    /\ value = 0
    /\ handed[1] = 0
    /\ 8 \in completed

(***************************************************************************)
(* Startup failures of the launcher (src/start_services.py)                *)
(***************************************************************************)

StartupSteps == {"config", "spawn", "ready"}

\* C12: when a startup step fails (Nginx config check, TiTiler spawn,
\* TiTiler readiness, Nginx spawn, Nginx readiness) the launcher has exited
\* without reaching the monitoring loop, no child it spawned is still
\* running, and nothing that comes after the failed step was spawned.
C12_StartupFailureStopsEverything ==
    failed.step \in StartupSteps =>
        /\ pc = "exited"
        /\ Alive = {}
        /\ (failed \in {Failure("config", "Nginx"), Failure("spawn", "TiTiler")}
                => Spawned = {})
        /\ (failed \in {Failure("ready", "TiTiler"), Failure("spawn", "Nginx")}
                => child["Nginx"] = "none")

\* Nginx never answered on port 5000: both children had been spawned and
\* both were stopped by cleanup().
C12_Witness ==
    /\ failed = Failure("ready", "Nginx")
    /\ pc = "exited"
    /\ \A s \in Services : child[s] \in {"terminated", "killed"}

\* C13: the exit status is 0 only for a shutdown requested by a signal, and
\* non-zero whenever a startup step failed or a supervised process died.
C13_ExitStatusTellsFailure ==
    pc = "exited" => (exit_code = "0" <=> failed = NoFailure)

(***************************************************************************)
(* The database check of GET /status (src/main.py)                         *)
(***************************************************************************)

ConnectionErrors == {"OperationalError", "PoolTimeout"}

\* C20: /status makes at most 2 database attempts, makes none after an
\* attempt whose SELECT 1 returned 1, reports database_online true exactly
\* when some attempt returned 1, makes a second attempt after an
\* OperationalError or PoolTimeout on the first, and makes no attempt after
\* any other exception.
C20_PingAttempts ==
    health.op = "ping" =>
        LET a == health.attempts
        IN  /\ Len(a) <= 2
            /\ \A i \in 1..Len(a) : a[i] = "one" => i = Len(a)
            /\ health.db_online <=> \E i \in 1..Len(a) : a[i] = "one"
            /\ (Len(a) >= 1 /\ a[1] \in ConnectionErrors => Len(a) = 2)
            /\ \A i \in 1..Len(a) : a[i] = "Exception" => i = Len(a)

\* The first attempt raised OperationalError and the second one succeeded.
C20_Witness ==
    /\ health.op = "ping"
    /\ health.attempts = <<"OperationalError", "one">>
    /\ health.db_online

(***************************************************************************)
(* The GCS configuration file (src/config.py)                              *)
(***************************************************************************)

NonEmptyArgs(a) == Truthy(a.credentials) /\ Truthy(a.bucket) /\ Truthy(a.project_id)

\* A save that returned True with non-empty arguments, directly followed by
\* a load made with GCS_CREDENTIALS unset.
RoundTrips ==
    {i \in 1..(Len(config_calls) - 1) :
        /\ config_calls[i].op = "save"
        /\ config_calls[i].ok
        /\ NonEmptyArgs(config_calls[i].args)
        /\ config_calls[i + 1].op = "load"
        /\ config_calls[i + 1].env.GCS_CREDENTIALS = PyNone}

C19_LoadIdempotent ==
    \A i \in 1..(Len(config_calls) - 1) :
        config_calls[i].op = "load" /\ config_calls[i + 1].op = "load"
            => config_calls[i + 1].ret = config_calls[i].ret

(***************************************************************************)
(* The COG viewer (src/app.py)                                             *)
(***************************************************************************)

\* C14: when the request path contains a '/', the bucket is the first path
\* segment and the object name is the remainder; the configured bucket
\* GCS_BUCKET_NAME is used, with the whole path as object name, only when
\* the path contains no '/'.
C14_BucketResolution ==
    proxy.at # "idle" =>
        IF HasSlash(proxy.path)
        THEN /\ proxy.target.bucket_name.t = "str"
             /\ ~HasSlash(proxy.target.bucket_name.v)
             /\ proxy.target.bucket_name.v \o <<"/">> \o proxy.target.blob_name
                    = proxy.path
        ELSE /\ proxy.target.bucket_name = proxy.configured
             /\ proxy.target.blob_name = proxy.path

\* A path with a slash was served from the bucket its first segment names,
\* which is not the configured one.
C14_Witness ==
    /\ proxy.at = "done"
    /\ proxy.path = <<"a", "/", "b">>
    /\ proxy.target.bucket_name = Str(<<"a">>)
    /\ proxy.target.blob_name = <<"b">>
    /\ proxy.configured # Str(<<"a">>)

\* The response of a request that the authenticated branch served.
Served == proxy.at = "done" /\ proxy.resp.via = "client" /\ proxy.resp.error = "none"

\* C15: with an authenticated client, 'Range: bytes=a-b' with a <= b is
\* answered 206 with Content-Range 'bytes a-b/<blob size>' and
\* Content-Length b-a+1, and exactly the bytes a..b are requested from
\* storage; without a Range header the full blob is returned with 200.
C15_RangeReads ==
    Served =>
        LET a == proxy.range.first
            b == proxy.range.last
        IN  /\ (proxy.range.unit = "bytes" /\ b # NoLast /\ a <= b =>
                    /\ proxy.resp.status = 206
                    /\ proxy.resp.content_range = <<a, b, proxy.size>>
                    /\ proxy.resp.content_length = b - a + 1
                    /\ proxy.resp.requested = <<a, b>>)
            /\ (proxy.range = NoRange =>
                    /\ proxy.resp.status = 200
                    /\ proxy.resp.body = proxy.size)

\* C16: whenever initialize_gcs_client returned False, storage_client is
\* None afterwards, also when a client was installed before, and the
\* endpoint that called it answered 500 with authenticated false.
C16_FailedInitClearsClient ==
    cred.init = "False" =>
        /\ storage_client = "None"
        /\ cred.endpoint \in {"refresh", "set"}
        /\ cred.status = 500
        /\ ~cred.authenticated

\* A credential call failed while a client was installed.
C16_Witness ==
    /\ cred.init = "False"
    /\ cred.before # "None"
    /\ storage_client = "None"

\* C17: when the last credential call answered authenticated true, a client
\* is installed: /api/cog-status reports gcs_authenticated true and
\* /api/test-gcs-auth does not answer 400.
C17_AuthenticatedMeansClient ==
    cred.authenticated =>
        /\ storage_client # "None"
        /\ CogStatus.gcs_authenticated
        /\ \A listing \in BOOLEAN : TestGcsAuth(listing).status # 400

\* C18: a /proxy/gcs request that saw an installed client completes with a
\* client, whatever credential calls run meanwhile: it never dereferences a
\* storage_client that was reset to None.
C18_ProxySurvivesCredentialChange ==
    proxy.at = "done" /\ proxy.seen # "None" => proxy.resp.error # "AttributeError"

(***************************************************************************)
(* The response of GET /status (src/main.py)                               *)
(***************************************************************************)

\* C21: a /status response that reports database_online false carries a
\* database_error field, and the field is absent exactly when
\* database_online is true.
C21_OfflineIsExplained ==
    health.op = "ping" => (health.db_error = "None" <=> health.db_online)

(***************************************************************************)
(* The csv export of the command line (src/cli.py)                         *)
(***************************************************************************)

\* The file holds a header line followed by one row per retrieved item, in
\* the items' order (nothing for a collection without items).
CompleteCsv(e) ==
    IF e.retrieved = <<>> THEN e.lines = <<>>
    ELSE /\ e.file = "written"
         /\ Len(e.lines) = Len(e.retrieved) + 1
         /\ e.lines[1].kind = "header"
         /\ \A i \in 1..Len(e.retrieved) :
                /\ e.lines[i + 1].kind = "row"
                /\ e.lines[i + 1].id = e.retrieved[i].id

\* C22: export_metadata with format 'csv' for an existing collection writes
\* a header row followed by exactly one row for each retrieved item, whatever
\* property keys the items carry (the file system permitting), and prints
\* the success message only if the file was written completely.
C22_CsvExportIsComplete ==
    (exported.op = "export" /\ exported.format = "csv" /\ exported.exists) =>
        /\ exported.error # "OSError" => CompleteCsv(exported)
        /\ exported.message = "success" => CompleteCsv(exported)

====
